---------------------------- MODULE Spec2Model ----------------------------
(***************************************************************************)
(* Model of training/modular_training_implementation.py of AION-CR:        *)
(* DatasetManager, ModularTrainer (train_module, federated_learning,       *)
(* _federated_averaging, _apply_differential_privacy), EnsembleModel,      *)
(* ContinuousLearningPipeline.run_training_loop and main().                *)
(*                                                                         *)
(* Modules (nn.Module objects) live in a heap indexed by object identity,  *)
(* so that aliasing (the same object reached through two handles) is       *)
(* visible.  A tensor is a sequence of rationals <<num, den>>; floating    *)
(* point is abstracted to exact rational arithmetic.                       *)
(***************************************************************************)
EXTENDS Integers, Sequences, FiniteSets, TLC

(***************************************************************************)
(* Bounds of the model.                                                    *)
(***************************************************************************)
\* longest client_configs list handed to federated_learning
MaxClients == 2
\* evaluate_performance draws a score from 0..MaxScore (np.random.random())
MaxScore == 2
\* the while True loop is explored for this many cycles
MaxCycles == 2
\* identify_improvement_targets selects at most this many module names
MaxTargets == 2
\* torch.randn_like draws each noise element from -MaxNoise..MaxNoise
MaxNoise == 1
\* largest value of the argument epsilon
MaxEpsilon == 2
\* largest number of entries of the mapping handed to create_ensemble
MaxMembers == 2
\* largest number of batches of the dataset handed to knowledge_distillation
MaxBatches == 2
\* largest value of the argument temperature
MaxTemperature == 2
\* longest list of names handed to load_dataset_for_module on its own
MaxNames == 2

(***************************************************************************)
(* Program constants.                                                      *)
(***************************************************************************)
\* await asyncio.sleep(86400)
NormalWait == 86400
\* await asyncio.sleep(3600)
CoolDown == 3600
\* nn.Linear(len(modules) * 768, 768): the hidden size the ensemble assumes
HiddenSize == 768
\* for epoch in range(5): the epochs of knowledge_distillation
DistillEpochs == 5

(***************************************************************************)
(* Rational arithmetic on pairs <<num, den>>, den > 0, kept in lowest      *)
(* terms (the abstraction of torch float tensors' elements).               *)
(***************************************************************************)
Abs(x) == IF x < 0 THEN -x ELSE x

RECURSIVE GCD(_, _)
GCD(a, b) == IF b = 0 THEN a ELSE GCD(b, a % b)

Rat(n, d) ==
    LET g == GCD(Abs(n), d)
    IN  IF n = 0 THEN <<0, 1>> ELSE <<n \div g, d \div g>>

RInt(n) == <<n, 1>>

RAdd(x, y) == Rat(x[1] * y[2] + y[1] * x[2], x[2] * y[2])

RMul(x, y) == Rat(x[1] * y[1], x[2] * y[2])

RDivInt(x, n) == Rat(x[1], x[2] * n)

\* x / y for y # 0
RDiv(x, y) ==
    IF y[1] > 0 THEN Rat(x[1] * y[2], x[2] * y[1])
    ELSE Rat(-(x[1] * y[2]), x[2] * (-y[1]))

RECURSIVE RSum(_)
RSum(xs) == IF xs = <<>> THEN <<0, 1>> ELSE RAdd(Head(xs), RSum(Tail(xs)))

\* copy_ into an integer tensor truncates toward zero
RTrunc(x) == IF x[1] >= 0 THEN RInt(x[1] \div x[2]) ELSE RInt(-((-x[1]) \div x[2]))

RECURSIVE SeqSum(_)
SeqSum(s) == IF s = <<>> THEN 0 ELSE Head(s) + SeqSum(Tail(s))

Range(s) == {s[i] : i \in 1..Len(s)}

(***************************************************************************)
(* DatasetManager                                                          *)
(***************************************************************************)
\* DatasetManager.AVAILABLE_DATASETS: logical name -> loader id
AVAILABLE_DATASETS ==
    [ lex_glue |-> "lex_glue",
      multi_eurlex |-> "multi_eurlex",
      casehold |-> "casehold/casehold",
      cuad |-> "cuad",
      eurlex |-> "eurlex",
      us_federal_register |-> "json",
      legal_bert |-> "pile-of-law/pile-of-law",
      financial_phrasebank |-> "financial_phrasebank",
      sec_filings |-> "json",
      pubmed |-> "pubmed",
      clinical_trials |-> "json" ]

\* the logical names whose loader id is fetched with load_dataset(...)
HubNames == {n \in DOMAIN AVAILABLE_DATASETS : AVAILABLE_DATASETS[n] # "json"}

\* _load_custom_dataset: "ok" when a Dataset is returned, else the exception
\* raised (sec_filings calls self._load_sec_filings, which the class lacks).
LoadCustomDataset(name) ==
    IF name = "us_federal_register" THEN "ok"
    ELSE IF name = "sec_filings" THEN "AttributeError"
    ELSE "NotImplementedError"

\* the body of the for loop of load_dataset_for_module for one name, given
\* the set h of hub datasets that load_dataset can fetch: TRUE when a dataset
\* is appended, FALSE when the name is unknown or its loader raised.
DatasetLoads(name, h) ==
    /\ name \in DOMAIN AVAILABLE_DATASETS
    /\ IF AVAILABLE_DATASETS[name] = "json"
       THEN LoadCustomDataset(name) = "ok"
       ELSE name \in h

\* LoadedDatasets with a fault: the first name that fails to load ends the loop
RECURSIVE LoadedDatasetsUntilFailure(_, _)
LoadedDatasetsUntilFailure(dataset_names, h) ==
    IF dataset_names = <<>> THEN <<>>
    ELSE IF DatasetLoads(Head(dataset_names), h)
         THEN <<Head(dataset_names)>> \o LoadedDatasetsUntilFailure(Tail(dataset_names), h)
         ELSE <<>>

\* the list `datasets` after the for loop: the names appended, in order
RECURSIVE LoadedDatasets(_, _)
LoadedDatasets(dataset_names, h) ==
    IF dataset_names = <<>> THEN <<>>
    ELSE LET rest == LoadedDatasets(Tail(dataset_names), h)
         IN  IF DatasetLoads(Head(dataset_names), h)
             THEN <<Head(dataset_names)>> \o rest
             ELSE rest

\* load_dataset_for_module with a fault: one dataset that fails to load makes
\* the whole call fail
LoadDatasetForModuleAll(dataset_names, h) ==
    LET ds == LoadedDatasets(dataset_names, h)
    IN  IF ds = dataset_names /\ ds # <<>>
        THEN [ok |-> TRUE, corpus |-> ds, err |-> "none"]
        ELSE [ok |-> FALSE, corpus |-> <<>>, err |-> "ValueError"]

\* load_dataset_for_module: the concatenated corpus (as the list of the
\* datasets it is made of), or ValueError when nothing could be loaded
LoadDatasetForModule(dataset_names, h) ==
    LET ds == LoadedDatasets(dataset_names, h)
    IN  IF ds # <<>> THEN [ok |-> TRUE, corpus |-> ds, err |-> "none"]
        ELSE [ok |-> FALSE, corpus |-> <<>>, err |-> "ValueError"]

(***************************************************************************)
(* ModuleConfig values of create_jurisdiction_modules and                  *)
(* create_domain_modules, in the order main() lists their tasks.           *)
(***************************************************************************)
JurisdictionModules ==
    << [name |-> "US_Legal_Module", base_model |-> "legal-bert",
        datasets |-> <<"casehold", "us_federal_register">>],
       [name |-> "EU_Legal_Module", base_model |-> "legal-bert",
        datasets |-> <<"multi_eurlex", "eurlex">>],
       [name |-> "UK_Legal_Module", base_model |-> "legal-bert",
        datasets |-> <<"lex_glue">>] >>

DomainModules ==
    << [name |-> "Financial_Compliance_Module", base_model |-> "finbert",
        datasets |-> <<"financial_phrasebank", "sec_filings">>],
       [name |-> "Healthcare_Compliance_Module", base_model |-> "biobert",
        datasets |-> <<"pubmed", "clinical_trials">>],
       [name |-> "Contract_Analysis_Module", base_model |-> "legal-bert",
        datasets |-> <<"cuad">>] >>

\* all_tasks = jurisdiction_tasks + domain_tasks
AllConfigs == JurisdictionModules \o DomainModules

ConfigNames == {AllConfigs[i].name : i \in 1..Len(AllConfigs)}

ConfigIndex(name) == CHOOSE i \in 1..Len(AllConfigs) : AllConfigs[i].name = name

(***************************************************************************)
(* Modules (nn.Module objects) and their state_dict.                       *)
(***************************************************************************)
\* state_dict().keys() of a sequence-classification model, in order
StateKeys == <<"embeddings.position_ids", "embeddings.word_embeddings.weight",
               "classifier.bias">>

\* rows of the word-embedding matrix: the base models have different
\* vocabularies, so their embedding tensors have different shapes
VocabSize(base_model) ==
    CASE base_model = "legal-bert" -> 2
      [] base_model = "finbert" -> 3
      [] OTHER -> 1

\* integer buffers keep their dtype when a float tensor is copied into them
IsIntKey(key) == key = "embeddings.position_ids"

\* AutoModelForSequenceClassification.from_pretrained(config.base_model)
PretrainedParams(base_model) ==
    [key \in Range(StateKeys) |->
        CASE key = "embeddings.position_ids" -> <<RInt(0), RInt(1)>>
          [] key = "embeddings.word_embeddings.weight" ->
                [j \in 1..VocabSize(base_model) |-> RInt(j)]
          [] OTHER -> <<RInt(0)>>]

\* the parameters trainer.train() leaves in the model: the Trainer is seeded,
\* so they are a function of the config and of the corpus it was given
TrainedParams(config, corpus) ==
    LET i == ConfigIndex(config.name)
        c == Len(corpus)
    IN  [key \in Range(StateKeys) |->
            CASE key = "embeddings.position_ids" -> <<RInt(0), RInt(1)>>
              [] key = "embeddings.word_embeddings.weight" ->
                    [j \in 1..VocabSize(config.base_model) |-> RInt(i * j)]
              [] OTHER -> <<RInt(c - i)>>]

NewModule(base_model) == [base |-> base_model, sd |-> PretrainedParams(base_model)]

\* the heap h with object id bound to module m
Alloc(h, id, m) == [o \in DOMAIN h \cup {id} |-> IF o = id THEN m ELSE h[o]]

\* the heap h without object id (its last reference is gone)
Free(h, id) == [o \in DOMAIN h \ {id} |-> h[o]]

(***************************************************************************)
(* Insertion-ordered dict (Python dict, nn.ModuleDict) as a sequence of    *)
(* [name, obj] items.                                                      *)
(***************************************************************************)
DictKeys(d) == [i \in 1..Len(d) |-> d[i].name]

DictHas(d, k) == \E i \in 1..Len(d) : d[i].name = k

DictGet(d, k) == d[CHOOSE i \in 1..Len(d) : d[i].name = k].obj

\* d[k] = v: replaces the value in place when k is present (the key keeps
\* its position), appends the item otherwise
DictSet(d, k, v) ==
    IF DictHas(d, k)
    THEN [i \in 1..Len(d) |-> IF d[i].name = k THEN [name |-> k, obj |-> v] ELSE d[i]]
    ELSE Append(d, [name |-> k, obj |-> v])

(***************************************************************************)
(* State.                                                                  *)
(***************************************************************************)
VARIABLES
    hub,               \* environment: hub datasets load_dataset can fetch
    heap,              \* object id -> module [base, sd]
    trained_modules,   \* ModularTrainer.trained_modules (ordered dict)
    disk,              \* names saved by save_model / torch.save
    sched,             \* "asyncio" (one event loop) or "workers" (parallel)
    mpc,               \* main(): position
    tpc,               \* train_module task t: position
    tmodel,            \* train_module task t: local `model` (object id, 0 = unset)
    tdata,             \* train_module task t: local `dataset` (the corpus)
    terr,              \* train_module task t: exception it raised
    gather_exc,        \* first exception set on gather's future ("none" = unset)
    trained_models,    \* main(): result list of asyncio.gather
    ensemble,          \* main(): EnsembleModel (members, in_features)
    lpc,               \* run_training_loop: phase
    cycle,             \* run_training_loop: number of the current cycle
    performance_history,
    current_performance,
    new_performance,
    modules_to_update, \* targets not yet retrained in this cycle
    loop_exc,          \* exception being handled by `except Exception`
    last_wait,         \* seconds of the last asyncio.sleep entered
    cancel_requested,  \* Task.cancel() was called on the loop's task
    cancel_at,         \* phase the loop was in when it was called
    deployed,          \* what deploy_updates handed to persistence
    fpc,               \* federated_learning: position
    client_configs,    \* federated_learning: argument
    client_models,     \* federated_learning: list of object ids
    fed_inputs,        \* the clients' state dicts when averaging started
    global_model,      \* federated_learning: object id (0 = unset)
    ferr,              \* exception federated_learning ended with
    dp_input,          \* _apply_differential_privacy: state dict at the call
    dp_epsilon,        \* _apply_differential_privacy: argument epsilon
    dp_noise,          \* _apply_differential_privacy: the randn_like draws
    ipc,               \* ModuleIntegrator / EnsembleModel call: position
    ierr,              \* exception that call ended with
    logits,            \* EnsembleModel.forward: its return value
    teacher,           \* knowledge_distillation: argument (object id)
    student,           \* knowledge_distillation: argument (object id)
    dataset,           \* knowledge_distillation: argument (list of batches)
    temperature,       \* knowledge_distillation: argument
    epoch,             \* knowledge_distillation: `epoch` of the outer loop
    batch_index,       \* knowledge_distillation: position of the inner loop
    optimizer_steps,   \* the batches optimizer.step() was called for, in order
    kd_before,         \* the heap when knowledge_distillation was called
    kd_result,         \* knowledge_distillation: its return value (object id)
    dmpc,              \* load_dataset_for_module call: position
    dataset_names,     \* load_dataset_for_module: argument
    load_result        \* load_dataset_for_module: corpus returned or exception

sharedVars == <<hub, heap, trained_modules, disk>>

loopVars == <<lpc, cycle, performance_history, current_performance, new_performance,
              modules_to_update, loop_exc, last_wait, cancel_requested, cancel_at,
              deployed>>

fedVars == <<fpc, client_configs, client_models, fed_inputs, global_model, ferr,
             dp_input, dp_epsilon, dp_noise>>

dpVars == <<dp_input, dp_epsilon, dp_noise>>

kdVars == <<teacher, student, dataset, temperature, epoch, batch_index,
            optimizer_steps, kd_before, kd_result>>

dmVars == <<dmpc, dataset_names, load_result>>

intVars == <<ipc, ierr, logits, kdVars, dmVars>>

mainVars == <<sched, mpc, tpc, tmodel, tdata, terr, gather_exc, trained_models, ensemble>>

Tasks == 1..Len(AllConfigs)

Finished(t) == tpc[t] \in {"done", "failed"}

\* The event loop runs the ready tasks in creation order, and train_module
\* has no suspension point, so a task runs once all earlier ones have ended;
\* parallel workers may run any unfinished task.
Runnable(t) ==
    /\ mpc = "gather"
    /\ ~Finished(t)
    /\ sched = "asyncio" => \A s \in 1..(t - 1) : Finished(s)

\* a task ends with an exception: Task.set_exception, then gather's callback
\* keeps the first exception it sees
TaskRaise(t, e) ==
    /\ tpc' = [tpc EXCEPT ![t] = "failed"]
    /\ terr' = [terr EXCEPT ![t] = e]
    /\ gather_exc' = IF gather_exc = "none" THEN e ELSE gather_exc
    /\ tmodel' = [tmodel EXCEPT ![t] = 0]
    /\ tdata' = [tdata EXCEPT ![t] = <<>>]
    /\ heap' = Free(heap, tmodel[t])

\* RegistryPut with a fault: the registry is rebound to a dict of the one item
RegistryPutRebinds(reg, name, obj) == <<[name |-> name, obj |-> obj]>>

\* RegistryPut with a fault: a name already present keeps its first module
RegistryPutKeepsFirst(reg, name, obj) ==
    IF DictHas(reg, name) THEN reg ELSE DictSet(reg, name, obj)

\* self.trained_modules[config.name] = model
RegistryPut(reg, name, obj) == DictSet(reg, name, obj)

(***************************************************************************)
(* train_module, as the task t of main()                                   *)
(***************************************************************************)
\* lines 182-200: from_pretrained, load_dataset_for_module, tokenize
TaskLoad(t) ==
    /\ Runnable(t) /\ tpc[t] = "pending"
    /\ \E fetched \in BOOLEAN :
         LET config == AllConfigs[t]
             data == LoadDatasetForModule(config.datasets, hub)
         IN  IF ~fetched THEN
                 TaskRaise(t, "OSError")
             ELSE IF ~data.ok THEN
                 TaskRaise(t, data.err)
             ELSE
                 /\ heap' = Alloc(heap, t, NewModule(config.base_model))
                 /\ tmodel' = [tmodel EXCEPT ![t] = t]
                 /\ tdata' = [tdata EXCEPT ![t] = data.corpus]
                 /\ tpc' = [tpc EXCEPT ![t] = "loaded"]
                 /\ UNCHANGED <<terr, gather_exc>>
    /\ UNCHANGED <<hub, trained_modules, disk, sched, mpc, trained_models, ensemble>>
    /\ UNCHANGED <<loopVars, fedVars, intVars>>

\* TaskTrain with a fault: the model is put in the registry as soon as it is
\* trained, before it is saved
TaskTrainRegistersEarly(t) ==
    /\ Runnable(t) /\ tpc[t] = "loaded"
    /\ \E ok \in BOOLEAN :
         IF ~ok THEN
             /\ TaskRaise(t, "RuntimeError")
             /\ UNCHANGED trained_modules
         ELSE
             /\ heap' = [heap EXCEPT ![tmodel[t]].sd = TrainedParams(AllConfigs[t], tdata[t])]
             /\ trained_modules' = RegistryPut(trained_modules, AllConfigs[t].name, tmodel[t])
             /\ tpc' = [tpc EXCEPT ![t] = "trained"]
             /\ UNCHANGED <<tmodel, tdata, terr, gather_exc>>
    /\ UNCHANGED <<hub, disk, sched, mpc, trained_models, ensemble>>
    /\ UNCHANGED <<loopVars, fedVars, intVars>>

\* lines 203-232: Trainer(...).train() updates the model in place
TaskTrain(t) ==
    /\ Runnable(t) /\ tpc[t] = "loaded"
    /\ \E ok \in BOOLEAN :
         IF ~ok THEN
             TaskRaise(t, "RuntimeError")
         ELSE
             /\ heap' = [heap EXCEPT ![tmodel[t]].sd = TrainedParams(AllConfigs[t], tdata[t])]
             /\ tpc' = [tpc EXCEPT ![t] = "trained"]
             /\ UNCHANGED <<tmodel, tdata, terr, gather_exc>>
    /\ UNCHANGED <<hub, trained_modules, disk, sched, mpc, trained_models, ensemble>>
    /\ UNCHANGED <<loopVars, fedVars, intVars>>

\* lines 235-236: trainer.save_model(str(model_path))
TaskSave(t) ==
    /\ Runnable(t) /\ tpc[t] = "trained"
    /\ \E ok \in BOOLEAN :
         IF ~ok THEN
             /\ TaskRaise(t, "OSError")
             /\ UNCHANGED disk
         ELSE
             /\ disk' = disk \cup {AllConfigs[t].name}
             /\ tpc' = [tpc EXCEPT ![t] = "saved"]
             /\ UNCHANGED <<heap, tmodel, tdata, terr, gather_exc>>
    /\ UNCHANGED <<hub, trained_modules, sched, mpc, trained_models, ensemble>>
    /\ UNCHANGED <<loopVars, fedVars, intVars>>

\* lines 238-241: the registry write, and return model
TaskStore(t) ==
    /\ Runnable(t) /\ tpc[t] = "saved"
    /\ trained_modules' = RegistryPut(trained_modules, AllConfigs[t].name, tmodel[t])
    /\ tpc' = [tpc EXCEPT ![t] = "done"]
    /\ UNCHANGED <<hub, heap, disk, sched, mpc, tmodel, tdata, terr, gather_exc,
                   trained_models, ensemble>>
    /\ UNCHANGED <<loopVars, fedVars, intVars>>

(***************************************************************************)
(* EnsembleModel.__init__                                                  *)
(***************************************************************************)
\* nn.ModuleDict(modules) keeps the dict's insertion order; the integration
\* layer is nn.Linear(len(modules) * 768, 768)
CreateEnsemble(modules) ==
    [members |-> modules, in_features |-> Len(modules) * HiddenSize]

NoEnsemble == [members |-> <<>>, in_features |-> -1]

(***************************************************************************)
(* main()                                                                  *)
(***************************************************************************)
\* lines 421-444: the coroutines are wrapped into tasks by asyncio.gather
MainGather ==
    /\ mpc = "start"
    /\ mpc' = "gather"
    /\ UNCHANGED <<sharedVars, sched, tpc, tmodel, tdata, terr, gather_exc,
                   trained_models, ensemble, loopVars, fedVars, intVars>>

\* GatherReturn with a fault: gather returns although a task has raised (as
\* with return_exceptions=True)
GatherReturnsExceptions ==
    /\ mpc = "gather"
    /\ \A t \in Tasks : Finished(t)
    /\ trained_models' = [t \in Tasks |-> tmodel[t]]
    /\ mpc' = "gathered"
    /\ UNCHANGED <<sharedVars, sched, tpc, tmodel, tdata, terr, gather_exc,
                   ensemble, loopVars, fedVars, intVars>>

\* await asyncio.gather(*all_tasks) returns the results in task order
GatherReturn ==
    /\ mpc = "gather"
    /\ \A t \in Tasks : Finished(t)
    /\ gather_exc = "none"
    /\ trained_models' = [t \in Tasks |-> tmodel[t]]
    /\ mpc' = "gathered"
    /\ UNCHANGED <<sharedVars, sched, tpc, tmodel, tdata, terr, gather_exc,
                   ensemble, loopVars, fedVars, intVars>>

\* without return_exceptions the first exception propagates out of main()
GatherRaise ==
    /\ mpc = "gather"
    /\ \A t \in Tasks : Finished(t)
    /\ gather_exc # "none"
    /\ mpc' = "raised"
    /\ UNCHANGED <<sharedVars, sched, tpc, tmodel, tdata, terr, gather_exc,
                   trained_models, ensemble, loopVars, fedVars, intVars>>

\* lines 449-451: all_modules = {**trainer.trained_modules}; create_ensemble
MainEnsemble ==
    /\ mpc = "gathered"
    /\ ensemble' = CreateEnsemble(trained_modules)
    /\ mpc' = "composed"
    /\ UNCHANGED <<sharedVars, sched, tpc, tmodel, tdata, terr, gather_exc,
                   trained_models, loopVars, fedVars, intVars>>

\* line 454: torch.save(ensemble_model.state_dict(), "aion_cr_ensemble.pth")
MainSaveEnsemble ==
    /\ mpc = "composed"
    /\ \E ok \in BOOLEAN :
         IF ok THEN /\ disk' = disk \cup {"aion_cr_ensemble.pth"}
                    /\ mpc' = "ensemble_saved"
               ELSE /\ mpc' = "raised"
                    /\ UNCHANGED disk
    /\ UNCHANGED <<hub, heap, trained_modules, sched, tpc, tmodel, tdata, terr,
                   gather_exc, trained_models, ensemble, loopVars, fedVars, intVars>>

\* lines 458-459: the pipeline is constructed and its loop awaited
MainStartLoop ==
    /\ mpc = "ensemble_saved"
    /\ mpc' = "run_training_loop"
    /\ UNCHANGED <<sharedVars, sched, tpc, tmodel, tdata, terr, gather_exc,
                   trained_models, ensemble, loopVars, fedVars, intVars>>

(***************************************************************************)
(* train_module as one call (it has no suspension point): the outcome of   *)
(* training `config` into a new object `id`, where `fail` names the        *)
(* external step that raises ("none" when all succeed).                    *)
(***************************************************************************)
TrainModule(config, id, fail) ==
    LET data == LoadDatasetForModule(config.datasets, hub)
        unchanged == [heap |-> heap, reg |-> trained_modules, disk |-> disk, obj |-> 0]
    IN  IF fail = "fetch" THEN [ok |-> FALSE, err |-> "OSError"] @@ unchanged
        ELSE IF ~data.ok THEN [ok |-> FALSE, err |-> data.err] @@ unchanged
        ELSE IF fail = "train" THEN [ok |-> FALSE, err |-> "RuntimeError"] @@ unchanged
        ELSE IF fail = "save" THEN [ok |-> FALSE, err |-> "OSError"] @@ unchanged
        ELSE [ok |-> TRUE, err |-> "none", obj |-> id,
              heap |-> Alloc(heap, id, [base |-> config.base_model,
                                        sd |-> TrainedParams(config, data.corpus)]),
              reg |-> RegistryPut(trained_modules, config.name, id),
              disk |-> disk \cup {config.name}]

TrainFailures == {"none", "fetch", "train", "save"}

\* an object id no module has yet
NewId == IF DOMAIN heap = {} THEN 1
         ELSE (CHOOSE m \in DOMAIN heap : \A o \in DOMAIN heap : o <= m) + 1

(***************************************************************************)
(* ContinuousLearningPipeline                                              *)
(***************************************************************************)
\* the methods the class defines; run_training_loop also calls
\* self.get_module_config and self.deploy_updates, which it does not define
PipelineMethods ==
    {"__init__", "run_training_loop", "collect_new_data", "evaluate_performance",
     "identify_improvement_targets"}

\* evaluate_performance: np.random.random(), abstracted to a few levels
Scores == 0..MaxScore

\* the lists of at most n distinct elements of S
RECURSIVE DistinctSeqs(_, _)
DistinctSeqs(S, n) ==
    IF n = 0 THEN {<<>>}
    ELSE LET shorter == DistinctSeqs(S, n - 1)
         IN  shorter \cup
             UNION {{Append(q, x) : x \in S \ Range(q)} : q \in shorter}

\* the selection policy: any list of distinct known module names (the stub in
\* the class returns the empty list, which is one of them)
IdentifyImprovementTargets(performance) ==
    DistinctSeqs(Range(DictKeys(trained_modules)), MaxTargets)

\* Improved with a fault: a tie counts as an improvement
ImprovedOrEqual(new, current) == new >= current

\* if new_performance > current_performance
Improved(new, current) == new > current

\* PhaseAfter with a fault: the evaluation before selecting is skipped
PhaseAfterSkipsEvaluation(p) ==
    CASE p = "collecting" -> "selecting"
      [] p = "evaluating" -> "selecting"
      [] p = "selecting" -> "retraining"
      [] p = "retraining" -> "validating"
      [] p = "deploying" -> "waiting"
      [] p = "waiting" -> "collecting"
      [] p = "cooldown" -> "collecting"
      [] OTHER -> p

\* the statement order of one iteration of the while loop: the phase that
\* follows phase p when p completes without raising
PhaseAfter(p) ==
    CASE p = "collecting" -> "evaluating"
      [] p = "evaluating" -> "selecting"
      [] p = "selecting" -> "retraining"
      [] p = "retraining" -> "validating"
      [] p = "deploying" -> "waiting"
      [] p = "waiting" -> "collecting"
      [] p = "cooldown" -> "collecting"
      [] OTHER -> p

\* SuspensionPoints with a fault: the retraining await suspends as well
SuspensionPointsWithRetraining == {"waiting", "cooldown", "retraining"}

\* the only awaits that suspend the task: the two asyncio.sleep calls.
\* A cancellation is delivered to a task where it is suspended.
SuspensionPoints == {"waiting", "cooldown"}

\* HandlerPhase with a fault: the handler re-raises and the loop ends
HandlerReraises(e) == "crashed"

\* except Exception as e: logger.error(...); await asyncio.sleep(3600)
HandlerPhase(e) == "cooldown"

\* LoopRaise with a fault: the handler sleeps the normal interval
LoopRaiseSleepsNormal(e) ==
    /\ loop_exc' = e
    /\ lpc' = HandlerPhase(e)
    /\ last_wait' = IF HandlerPhase(e) = "cooldown" THEN NormalWait ELSE last_wait
    /\ modules_to_update' = <<>>

\* a step of the try block raises e (the target list of the abandoned
\* iteration is dead: it is assigned anew before it is next read)
LoopRaise(e) ==
    /\ loop_exc' = e
    /\ lpc' = HandlerPhase(e)
    /\ last_wait' = IF HandlerPhase(e) = "cooldown" THEN CoolDown ELSE last_wait
    /\ modules_to_update' = <<>>

\* new_data = await self.collect_new_data()
Collect ==
    /\ lpc = "collecting" /\ cycle <= MaxCycles
    /\ lpc' = PhaseAfter(lpc)
    /\ UNCHANGED <<cycle, performance_history, current_performance, new_performance,
                   modules_to_update, loop_exc, last_wait, cancel_requested,
                   cancel_at, deployed>>
    /\ UNCHANGED <<sharedVars, mainVars, fedVars, intVars>>

\* Evaluate with a fault: the history keeps the latest score only
EvaluateKeepsLatest ==
    /\ lpc = "evaluating"
    /\ \E score \in Scores :
         /\ current_performance' = score
         /\ performance_history' = <<score>>
    /\ lpc' = PhaseAfter(lpc)
    /\ UNCHANGED <<cycle, new_performance, modules_to_update, loop_exc, last_wait,
                   cancel_requested, cancel_at, deployed>>
    /\ UNCHANGED <<sharedVars, mainVars, fedVars, intVars>>

\* current_performance = await self.evaluate_performance(); history.append
Evaluate ==
    /\ lpc = "evaluating"
    /\ \E score \in Scores :
         /\ current_performance' = score
         /\ performance_history' = Append(performance_history, score)
    /\ lpc' = PhaseAfter(lpc)
    /\ UNCHANGED <<cycle, new_performance, modules_to_update, loop_exc, last_wait,
                   cancel_requested, cancel_at, deployed>>
    /\ UNCHANGED <<sharedVars, mainVars, fedVars, intVars>>

\* modules_to_update = self.identify_improvement_targets(current_performance)
Select ==
    /\ lpc = "selecting"
    /\ modules_to_update' \in IdentifyImprovementTargets(current_performance)
    /\ lpc' = PhaseAfter(lpc)
    /\ UNCHANGED <<cycle, performance_history, current_performance, new_performance,
                   loop_exc, last_wait, cancel_requested, cancel_at, deployed>>
    /\ UNCHANGED <<sharedVars, mainVars, fedVars, intVars>>

\* one iteration of `for module_name in modules_to_update`
RetrainModule ==
    /\ lpc = "retraining" /\ modules_to_update # <<>>
    /\ IF "get_module_config" \notin PipelineMethods THEN
           /\ LoopRaise("AttributeError")
           /\ UNCHANGED sharedVars
       ELSE
           \E fail \in TrainFailures :
             LET config == AllConfigs[ConfigIndex(Head(modules_to_update))]
                 r == TrainModule(config, NewId, fail)
             IN  /\ heap' = r.heap /\ trained_modules' = r.reg /\ disk' = r.disk
                 /\ UNCHANGED hub
                 /\ IF r.ok THEN /\ modules_to_update' = Tail(modules_to_update)
                                 /\ UNCHANGED <<lpc, loop_exc, last_wait>>
                    ELSE LoopRaise(r.err)
    /\ UNCHANGED <<cycle, performance_history, current_performance, new_performance,
                   cancel_requested, cancel_at, deployed>>
    /\ UNCHANGED <<mainVars, fedVars, intVars>>

\* the for loop is exhausted
RetrainDone ==
    /\ lpc = "retraining" /\ modules_to_update = <<>>
    /\ lpc' = PhaseAfter(lpc)
    /\ UNCHANGED <<cycle, performance_history, current_performance, new_performance,
                   modules_to_update, loop_exc, last_wait, cancel_requested,
                   cancel_at, deployed>>
    /\ UNCHANGED <<sharedVars, mainVars, fedVars, intVars>>

\* Validate with a fault: without an improvement the next iteration starts
\* at once, with no wait
ValidateSkipsWait ==
    /\ lpc = "validating"
    /\ \E score \in Scores :
         /\ new_performance' = score
         /\ IF Improved(score, current_performance)
            THEN /\ lpc' = "deploying"
                 /\ UNCHANGED <<last_wait, cycle>>
            ELSE /\ lpc' = "collecting"
                 /\ cycle' = cycle + 1
                 /\ UNCHANGED last_wait
    /\ UNCHANGED <<performance_history, current_performance,
                   modules_to_update, loop_exc, cancel_requested, cancel_at, deployed>>
    /\ UNCHANGED <<sharedVars, mainVars, fedVars, intVars>>

\* new_performance = await self.evaluate_performance(); the comparison; when
\* it is false the iteration goes on to await asyncio.sleep(86400)
Validate ==
    /\ lpc = "validating"
    /\ \E score \in Scores :
         /\ new_performance' = score
         /\ IF Improved(score, current_performance)
            THEN /\ lpc' = "deploying"
                 /\ UNCHANGED last_wait
            ELSE /\ lpc' = "waiting"
                 /\ last_wait' = NormalWait
    /\ UNCHANGED <<cycle, performance_history, current_performance,
                   modules_to_update, loop_exc, cancel_requested, cancel_at, deployed>>
    /\ UNCHANGED <<sharedVars, mainVars, fedVars, intVars>>

\* logger.info("Performance improved! ..."); await self.deploy_updates();
\* then await asyncio.sleep(86400)
Deploy ==
    /\ lpc = "deploying"
    /\ IF "deploy_updates" \notin PipelineMethods THEN
           /\ LoopRaise("AttributeError")
           /\ UNCHANGED deployed
       ELSE
           /\ deployed' = Append(deployed, DictKeys(trained_modules))
           /\ lpc' = PhaseAfter(lpc)
           /\ last_wait' = NormalWait
           /\ UNCHANGED <<loop_exc, modules_to_update>>
    /\ UNCHANGED <<cycle, performance_history, current_performance, new_performance,
                   cancel_requested, cancel_at>>
    /\ UNCHANGED <<sharedVars, mainVars, fedVars, intVars>>

\* a sleep ends and the while loop starts its next iteration (the locals of
\* the finished iteration are dead: each is assigned before it is next read)
Wake ==
    /\ lpc \in SuspensionPoints /\ ~cancel_requested
    /\ lpc' = PhaseAfter(lpc)
    /\ cycle' = cycle + 1
    /\ loop_exc' = "none"
    /\ current_performance' = -1 /\ new_performance' = -1
    /\ UNCHANGED <<performance_history, modules_to_update, last_wait,
                   cancel_requested, cancel_at, deployed>>
    /\ UNCHANGED <<sharedVars, mainVars, fedVars, intVars>>

\* the pending cancellation is delivered at the suspended await:
\* CancelledError is a BaseException (Python 3.8 on), which `except
\* Exception` does not catch, so it leaves the loop
Cancelled ==
    /\ lpc \in SuspensionPoints /\ cancel_requested
    /\ lpc' = "cancelled"
    /\ UNCHANGED <<cycle, performance_history, current_performance, new_performance,
                   modules_to_update, loop_exc, last_wait, cancel_requested,
                   cancel_at, deployed>>
    /\ UNCHANGED <<sharedVars, mainVars, fedVars, intVars>>

\* environment: Task.cancel() on the task that runs the loop
RequestCancel ==
    /\ lpc \notin {"idle", "cancelled"} /\ ~cancel_requested
    /\ cancel_requested' = TRUE
    /\ cancel_at' = lpc
    /\ UNCHANGED <<lpc, cycle, performance_history, current_performance,
                   new_performance, modules_to_update, loop_exc, last_wait, deployed>>
    /\ UNCHANGED <<sharedVars, mainVars, fedVars, intVars>>

(***************************************************************************)
(* ModularTrainer._federated_averaging                                     *)
(***************************************************************************)

\* TensorMean with a fault: the stacked tensors are summed, not averaged
TensorSumOnly(tensors) ==
    [j \in 1..Len(tensors[1]) |-> RSum([i \in 1..Len(tensors) |-> tensors[i][j]])]

\* torch.stack(tensors).mean(dim=0): the element-wise mean of equal shapes
TensorMean(tensors) ==
    [j \in 1..Len(tensors[1]) |->
        RDivInt(RSum([i \in 1..Len(tensors) |-> tensors[i][j]]), Len(tensors))]

\* load_state_dict copies each tensor into the module's own tensor, which
\* keeps its dtype
LoadStateDict(sd, state_dict) ==
    [key \in DOMAIN sd |->
        IF IsIntKey(key)
        THEN [j \in 1..Len(state_dict[key]) |-> RTrunc(state_dict[key][j])]
        ELSE state_dict[key]]

\* the exception of the averaging loop ("none" when it completes): for each
\* key of the first model in order, m.state_dict()[key] raises KeyError for a
\* model without it and torch.stack raises RuntimeError on unequal shapes
AveragingError(h, models) ==
    LET first == h[models[1]].sd
        Missing(key) == \E i \in 1..Len(models) : key \notin DOMAIN h[models[i]].sd
        Mismatch(key) == \E i \in 1..Len(models) :
                            Len(h[models[i]].sd[key]) # Len(first[key])
        bad == {k \in 1..Len(StateKeys) :
                   /\ StateKeys[k] \in DOMAIN first
                   /\ Missing(StateKeys[k]) \/ Mismatch(StateKeys[k])}
    IN  IF bad = {} THEN "none"
        ELSE LET k == CHOOSE x \in bad : \A y \in bad : x <= y
             IN  IF Missing(StateKeys[k]) THEN "KeyError" ELSE "RuntimeError"

\* _federated_averaging with a fault: the check for an empty list is missing,
\* so models[0] raises IndexError
FederatedAveragingUnchecked(h, models) ==
    IF models = <<>> THEN [ok |-> FALSE, err |-> "IndexError", obj |-> 0, heap |-> h]
    ELSE IF AveragingError(h, models) # "none"
    THEN [ok |-> FALSE, err |-> AveragingError(h, models), obj |-> 0, heap |-> h]
    ELSE LET avg_state_dict ==
                 [key \in DOMAIN h[models[1]].sd |->
                     TensorMean([i \in 1..Len(models) |-> h[models[i]].sd[key]])]
         IN  [ok |-> TRUE, err |-> "none", obj |-> models[1],
              heap |-> [h EXCEPT ![models[1]].sd = LoadStateDict(@, avg_state_dict)]]

\* _federated_averaging(models) on heap h: avg_model is models[0] itself, and
\* load_state_dict writes the means into it
FederatedAveraging(h, models) ==
    IF models = <<>> THEN [ok |-> FALSE, err |-> "ValueError", obj |-> 0, heap |-> h]
    ELSE IF AveragingError(h, models) # "none"
    THEN [ok |-> FALSE, err |-> AveragingError(h, models), obj |-> 0, heap |-> h]
    ELSE LET avg_model == models[1]
             avg_state_dict ==
                 [key \in DOMAIN h[avg_model].sd |->
                     TensorMean([i \in 1..Len(models) |-> h[models[i]].sd[key]])]
         IN  [ok |-> TRUE, err |-> "none", obj |-> avg_model,
              heap |-> [h EXCEPT ![avg_model].sd = LoadStateDict(@, avg_state_dict)]]

(***************************************************************************)
(* ModularTrainer._apply_differential_privacy                              *)
(***************************************************************************)
\* IsNoisedKey with a fault: the test for "bias" is missing
IsNoisedKeyWeightOnly(key) == key = "embeddings.word_embeddings.weight"

\* if "weight" in key or "bias" in key
IsNoisedKey(key) ==
    key \in {"embeddings.word_embeddings.weight", "classifier.bias"}

\* sensitivity = 1.0
Sensitivity == RInt(1)

\* the draws of torch.randn_like for the noised tensors of state dict sd
NoiseDraws(sd) ==
    LET keys == {key \in DOMAIN sd : IsNoisedKey(key)}
        vectors == UNION {[1..Len(sd[key]) -> (-MaxNoise)..MaxNoise] : key \in keys}
    IN  {z \in [keys -> vectors] : \A key \in keys : Len(z[key]) = Len(sd[key])}

\* _apply_differential_privacy with a fault: the noise goes into a copy of the
\* model, which is returned, and the model given keeps its values
ApplyDifferentialPrivacyOnCopy(h, model, epsilon, z) ==
    IF epsilon = 0 /\ \E key \in DOMAIN h[model].sd : IsNoisedKey(key)
    THEN [ok |-> FALSE, err |-> "ZeroDivisionError", obj |-> 0, heap |-> h]
    ELSE LET noise_scale == RDiv(Sensitivity, RInt(epsilon))
             noised == [key \in DOMAIN h[model].sd |->
                          IF IsNoisedKey(key)
                          THEN [j \in 1..Len(h[model].sd[key]) |->
                                   RAdd(h[model].sd[key][j],
                                        RMul(RInt(z[key][j]), noise_scale))]
                          ELSE h[model].sd[key]]
             copy == Len(h) + 1
         IN  [ok |-> TRUE, err |-> "none", obj |-> copy,
              heap |-> Alloc(h, copy, [base |-> h[model].base, sd |-> noised])]

\* _apply_differential_privacy(model, epsilon) on heap h with the draws z:
\* state_dict[key] += noise adds in place, on the tensors of the model itself
ApplyDifferentialPrivacy(h, model, epsilon, z) ==
    IF epsilon = 0 /\ \E key \in DOMAIN h[model].sd : IsNoisedKey(key)
    THEN [ok |-> FALSE, err |-> "ZeroDivisionError", obj |-> 0, heap |-> h]
    ELSE LET noise_scale == RDiv(Sensitivity, RInt(epsilon))
             noised == [key \in DOMAIN h[model].sd |->
                          IF IsNoisedKey(key)
                          THEN [j \in 1..Len(h[model].sd[key]) |->
                                   RAdd(h[model].sd[key][j],
                                        RMul(RInt(z[key][j]), noise_scale))]
                          ELSE h[model].sd[key]]
         IN  [ok |-> TRUE, err |-> "none", obj |-> model,
              heap |-> [h EXCEPT ![model].sd = LoadStateDict(@, noised)]]

\* federated_learning calls _apply_differential_privacy(global_model, epsilon=1.0)
FedEpsilon == 1

(***************************************************************************)
(* ModularTrainer.federated_learning                                       *)
(***************************************************************************)
\* model = await self.train_module(config); client_models.append(model)
FedTrain ==
    /\ fpc = "training" /\ Len(client_models) < Len(client_configs)
    /\ \E fail \in TrainFailures :
         LET r == TrainModule(client_configs[Len(client_models) + 1], NewId, fail)
         IN  /\ heap' = r.heap /\ trained_modules' = r.reg /\ disk' = r.disk
             /\ IF r.ok THEN /\ client_models' = Append(client_models, r.obj)
                             /\ UNCHANGED <<fpc, ferr>>
                ELSE /\ fpc' = "raised" /\ ferr' = r.err
                     /\ UNCHANGED client_models
    /\ UNCHANGED <<hub, client_configs, fed_inputs, global_model, dpVars>>
    /\ UNCHANGED <<mainVars, loopVars, intVars>>

\* global_model = self._federated_averaging(client_models)
FedAverage ==
    /\ fpc = "training" /\ Len(client_models) = Len(client_configs)
    /\ LET r == FederatedAveraging(heap, client_models)
       IN  /\ fed_inputs' = [i \in 1..Len(client_models) |-> heap[client_models[i]].sd]
           /\ heap' = r.heap
           /\ IF r.ok THEN /\ global_model' = r.obj /\ fpc' = "averaged"
                           /\ UNCHANGED ferr
              ELSE /\ fpc' = "raised" /\ ferr' = r.err
                   /\ UNCHANGED global_model
    /\ UNCHANGED <<hub, trained_modules, disk, client_configs, client_models, dpVars>>
    /\ UNCHANGED <<mainVars, loopVars, intVars>>

\* global_model = self._apply_differential_privacy(global_model, epsilon=1.0)
FedPrivacy ==
    /\ fpc = "averaged"
    /\ \E z \in NoiseDraws(heap[global_model].sd) :
         LET r == ApplyDifferentialPrivacy(heap, global_model, FedEpsilon, z)
         IN  /\ dp_input' = heap[global_model].sd
             /\ dp_epsilon' = FedEpsilon /\ dp_noise' = z
             /\ heap' = r.heap
             /\ IF r.ok THEN /\ global_model' = r.obj /\ fpc' = "done"
                             /\ UNCHANGED ferr
                ELSE /\ fpc' = "raised" /\ ferr' = r.err
                     /\ UNCHANGED global_model
    /\ UNCHANGED <<hub, trained_modules, disk, client_configs, client_models, fed_inputs>>
    /\ UNCHANGED <<mainVars, loopVars, intVars>>

(***************************************************************************)
(* Initial states.                                                         *)
(***************************************************************************)
\* every hub dataset can be fetched
AllHub == HubNames

\* the environments explored: which hub datasets load_dataset can fetch
HubScenarios ==
    {AllHub, AllHub \ {"pubmed"}, AllHub \ {"casehold", "eurlex"}, {}}

LoopIdle ==
    /\ lpc = "idle" /\ cycle = 0
    /\ performance_history = <<>>
    /\ current_performance = -1 /\ new_performance = -1
    /\ modules_to_update = <<>>
    /\ loop_exc = "none" /\ last_wait = 0
    /\ cancel_requested = FALSE /\ cancel_at = "none"
    /\ deployed = <<>>

\* _apply_differential_privacy has not been called
NoPrivacyCall == dp_input = <<>> /\ dp_epsilon = 0 /\ dp_noise = <<>>

\* no call on the integrator or on an ensemble is under way
DistillIdle ==
    /\ teacher = 0 /\ student = 0 /\ dataset = <<>> /\ temperature = 0
    /\ epoch = 0 /\ batch_index = 0
    /\ optimizer_steps = <<>> /\ kd_before = <<>> /\ kd_result = 0

\* load_dataset_for_module is not being called on its own
LoaderIdle ==
    /\ dmpc = "idle" /\ dataset_names = <<>>
    /\ load_result = [ok |-> FALSE, corpus |-> <<>>, err |-> "none"]

IntegratorIdle ==
    /\ ipc = "idle" /\ ierr = "none" /\ logits = <<>>
    /\ DistillIdle /\ LoaderIdle

FedIdle ==
    /\ fpc = "idle"
    /\ client_configs = <<>> /\ client_models = <<>>
    /\ fed_inputs = <<>> /\ global_model = 0 /\ ferr = "none"
    /\ NoPrivacyCall

MainStart ==
    /\ mpc = "start"
    /\ tpc = [t \in Tasks |-> "pending"]
    /\ tmodel = [t \in Tasks |-> 0]
    /\ tdata = [t \in Tasks |-> <<>>]
    /\ terr = [t \in Tasks |-> "none"]
    /\ gather_exc = "none"
    /\ trained_models = <<>>
    /\ ensemble = NoEnsemble

\* ModularTrainer(): an empty registry
TrainerInit ==
    /\ heap = <<>>
    /\ trained_modules = <<>>
    /\ disk = {}

\* asyncio.run(main()): one event loop
Init ==
    /\ hub \in HubScenarios
    /\ TrainerInit
    /\ sched = "asyncio"
    /\ MainStart /\ LoopIdle /\ IntegratorIdle /\ FedIdle

\* the same tasks on parallel workers
ParallelInit ==
    /\ hub \in {AllHub, AllHub \ {"pubmed"}}
    /\ TrainerInit
    /\ sched = "workers"
    /\ MainStart /\ LoopIdle /\ IntegratorIdle /\ FedIdle

vars == <<sharedVars, mainVars, loopVars, fedVars, intVars>>

Next ==
    \/ MainGather
    \/ \E t \in Tasks : TaskLoad(t)
    \/ \E t \in Tasks : TaskTrain(t)
    \/ \E t \in Tasks : TaskSave(t)
    \/ \E t \in Tasks : TaskStore(t)
    \/ GatherReturn
    \/ GatherRaise
    \/ MainEnsemble
    \/ MainSaveEnsemble
    \/ MainStartLoop

Spec == Init /\ [][Next]_vars

ParallelSpec == ParallelInit /\ [][Next]_vars

(***************************************************************************)
(* The continuous-learning loop, from the state main() starts it in: every *)
(* module trained (all of the hub reachable), the ensemble saved.          *)
(***************************************************************************)
MainFinished ==
    /\ hub = AllHub
    /\ sched = "asyncio"
    /\ heap = [t \in Tasks |->
                 [base |-> AllConfigs[t].base_model,
                  sd |-> TrainedParams(AllConfigs[t],
                            LoadDatasetForModule(AllConfigs[t].datasets, AllHub).corpus)]]
    /\ trained_modules = [t \in Tasks |-> [name |-> AllConfigs[t].name, obj |-> t]]
    /\ disk = ConfigNames \cup {"aion_cr_ensemble.pth"}
    /\ mpc = "run_training_loop"
    /\ tpc = [t \in Tasks |-> "done"]
    /\ tmodel = [t \in Tasks |-> t]
    /\ tdata = [t \in Tasks |-> LoadDatasetForModule(AllConfigs[t].datasets, AllHub).corpus]
    /\ terr = [t \in Tasks |-> "none"]
    /\ gather_exc = "none"
    /\ trained_models = [t \in Tasks |-> t]
    /\ ensemble = CreateEnsemble(trained_modules)

LoopInit ==
    /\ MainFinished
    /\ FedIdle /\ IntegratorIdle
    /\ lpc = "collecting" /\ cycle = 1
    /\ performance_history = <<>>
    /\ current_performance = -1 /\ new_performance = -1
    /\ modules_to_update = <<>>
    /\ loop_exc = "none" /\ last_wait = 0
    /\ cancel_requested = FALSE /\ cancel_at = "none"
    /\ deployed = <<>>

\* the steps of the loop's own task
LoopStep ==
    \/ Collect
    \/ Evaluate
    \/ Select
    \/ RetrainModule
    \/ RetrainDone
    \/ Validate
    \/ Deploy
    \/ Wake
    \/ Cancelled

LoopNext == LoopStep \/ RequestCancel

LoopSpec == LoopInit /\ [][LoopNext]_vars

\* the event loop resumes the task whenever it can run, and every sleep ends
LoopFairSpec == LoopSpec /\ WF_vars(LoopStep)

(***************************************************************************)
(* federated_learning(client_configs) on a fresh trainer.                  *)
(***************************************************************************)
\* the lists of at most n elements of S
RECURSIVE SeqsUpTo(_, _)
SeqsUpTo(S, n) ==
    IF n = 0 THEN {<<>>}
    ELSE LET shorter == SeqsUpTo(S, n - 1)
         IN  shorter \cup {Append(q, x) : q \in shorter, x \in S}

FedInit ==
    /\ hub \in HubScenarios
    /\ TrainerInit
    /\ sched = "asyncio"
    /\ MainStart /\ LoopIdle /\ IntegratorIdle
    /\ fpc = "training"
    /\ client_configs \in SeqsUpTo(Range(AllConfigs), MaxClients)
    /\ client_models = <<>>
    /\ fed_inputs = <<>> /\ global_model = 0 /\ ferr = "none"
    /\ NoPrivacyCall

FedNext == FedTrain \/ FedAverage \/ FedPrivacy

FedSpec == FedInit /\ [][FedNext]_vars

(***************************************************************************)
(* _federated_averaging(models) called on its own, on any list of modules. *)
(***************************************************************************)
\* the state dict sd of a module that has no tensor called key
WithoutKey(sd, key) == [k \in DOMAIN sd \ {key} |-> sd[k]]

\* nn.Module arguments: the modules train_module produces for the configs,
\* and modules of other architectures, whose state dict lacks one of the keys
ModuleSamples ==
    LET trained == {[base |-> c.base_model,
                     sd |-> TrainedParams(c, LoadedDatasets(c.datasets, AllHub))] :
                        c \in Range(AllConfigs)}
    IN  trained \cup {[base |-> "other", sd |-> WithoutKey(m.sd, key)] :
                         m \in trained, key \in Range(StateKeys)}

\* self._federated_averaging(models)
CallAverage ==
    /\ fpc = "average"
    /\ LET r == FederatedAveraging(heap, client_models)
       IN  /\ fed_inputs' = [i \in 1..Len(client_models) |-> heap[client_models[i]].sd]
           /\ heap' = r.heap
           /\ IF r.ok THEN /\ global_model' = r.obj /\ fpc' = "averaged_only"
                           /\ UNCHANGED ferr
              ELSE /\ fpc' = "raised" /\ ferr' = r.err
                   /\ UNCHANGED global_model
    /\ UNCHANGED <<hub, trained_modules, disk, client_configs, client_models, dpVars>>
    /\ UNCHANGED <<mainVars, loopVars, intVars>>

AvgInit ==
    /\ hub = AllHub
    /\ sched = "asyncio"
    /\ MainStart /\ LoopIdle /\ IntegratorIdle
    /\ trained_modules = <<>> /\ disk = {}
    /\ heap \in SeqsUpTo(ModuleSamples, MaxClients)
    /\ client_models = [i \in 1..Len(heap) |-> i]
    /\ fpc = "average"
    /\ client_configs = <<>>
    /\ fed_inputs = <<>> /\ global_model = 0 /\ ferr = "none"
    /\ NoPrivacyCall

AvgNext == CallAverage

AvgSpec == AvgInit /\ [][AvgNext]_vars

(***************************************************************************)
(* _apply_differential_privacy(model, epsilon) called on its own, on any   *)
(* module and with any epsilon.                                            *)
(***************************************************************************)
\* the values of the argument epsilon: negative, zero and positive
Epsilons == (-1)..MaxEpsilon

\* self._apply_differential_privacy(model, epsilon) with model = client_models[1]
CallPrivacy ==
    /\ fpc = "privacy"
    /\ \E epsilon \in Epsilons, z \in NoiseDraws(heap[client_models[1]].sd) :
         LET r == ApplyDifferentialPrivacy(heap, client_models[1], epsilon, z)
         IN  /\ dp_input' = heap[client_models[1]].sd
             /\ dp_epsilon' = epsilon
             /\ heap' = r.heap
             /\ IF r.ok THEN /\ global_model' = r.obj /\ fpc' = "privatized"
                             /\ dp_noise' = z
                             /\ UNCHANGED ferr
                ELSE /\ fpc' = "raised" /\ ferr' = r.err
                     /\ dp_noise' = <<>>
                     /\ UNCHANGED global_model
    /\ UNCHANGED <<hub, trained_modules, disk, client_configs, client_models, fed_inputs>>
    /\ UNCHANGED <<mainVars, loopVars, intVars>>

PrivInit ==
    /\ hub = AllHub
    /\ sched = "asyncio"
    /\ MainStart /\ LoopIdle /\ IntegratorIdle
    /\ trained_modules = <<>> /\ disk = {}
    /\ heap \in {<<m>> : m \in ModuleSamples}
    /\ client_models = <<1>>
    /\ fpc = "privacy"
    /\ client_configs = <<>>
    /\ fed_inputs = <<>> /\ global_model = 0 /\ ferr = "none"
    /\ NoPrivacyCall

PrivNext == CallPrivacy

PrivSpec == PrivInit /\ [][PrivNext]_vars

(***************************************************************************)
(* ModuleIntegrator.create_ensemble(modules) and EnsembleModel.forward,    *)
(* called on their own on any mapping of trained modules.                  *)
(***************************************************************************)
\* EnsembleModel.forward(input_ids): `self.modules = nn.ModuleDict(modules)`
\* in __init__ registers the dict as a submodule under _modules["modules"],
\* but the attribute lookup self.modules finds the method nn.Module.modules
\* of the class first, so `self.modules.items()` raises AttributeError
\* before any member is called
Forward(ens, input_ids) ==
    [ok |-> FALSE, err |-> "AttributeError", logits |-> <<>>]

\* ensemble_model = integrator.create_ensemble(modules), modules being the
\* mapping in trained_modules: neither function tests for an empty mapping
CallCompose ==
    /\ ipc = "compose"
    /\ ensemble' = CreateEnsemble(trained_modules)
    /\ ipc' = "composed"
    /\ UNCHANGED <<ierr, logits, kdVars>>
    /\ UNCHANGED <<sharedVars, sched, mpc, tpc, tmodel, tdata, terr, gather_exc,
                   trained_models, loopVars, fedVars, dmVars>>

\* logits = ensemble_model(input_ids)
CallForward ==
    /\ ipc = "composed"
    /\ \E input_ids \in 1..MaxMembers :
         LET r == Forward(ensemble, input_ids)
         IN  IF r.ok THEN /\ logits' = r.logits /\ ipc' = "inferred"
                          /\ UNCHANGED ierr
             ELSE /\ ipc' = "raised" /\ ierr' = r.err
                  /\ UNCHANGED logits
    /\ UNCHANGED <<sharedVars, mainVars, loopVars, fedVars, kdVars, dmVars>>

\* the mappings of at most MaxMembers distinct names to trained modules, in
\* any insertion order
EnsInit ==
    /\ hub = AllHub
    /\ sched = "asyncio"
    /\ MainStart /\ LoopIdle /\ FedIdle
    /\ disk = {}
    /\ \E names \in SeqsUpTo(ConfigNames, MaxMembers) :
         /\ \A i, j \in 1..Len(names) : names[i] = names[j] => i = j
         /\ trained_modules = [i \in 1..Len(names) |-> [name |-> names[i], obj |-> i]]
         /\ heap = [i \in 1..Len(names) |->
                      LET c == AllConfigs[ConfigIndex(names[i])]
                      IN  [base |-> c.base_model,
                           sd |-> TrainedParams(c, LoadedDatasets(c.datasets, AllHub))]]
    /\ ipc = "compose" /\ ierr = "none" /\ logits = <<>>
    /\ DistillIdle /\ LoaderIdle

EnsNext == CallCompose \/ CallForward

EnsSpec == EnsInit /\ [][EnsNext]_vars

(***************************************************************************)
(* ModuleIntegrator.knowledge_distillation(teacher, student, dataset,      *)
(* temperature), called on its own.                                        *)
(***************************************************************************)
\* the float a division by a zero temperature ends in (inf - inf, 0 * inf)
NaN == <<0, 0>>

\* student.parameters(): the weights and biases, not the integer buffers
IsParameterKey(key) == ~IsIntKey(key)

\* OptimizerStep with a fault: the optimizer was built on the teacher's
\* parameters
OptimizerStepOnTeacher(h, stu, tea, batch, temp) ==
    LET sd == h[tea].sd
        moved(x) == IF temp = 0 \/ x = NaN THEN NaN
                    ELSE RAdd(x, RDiv(RInt(1), RInt(temp)))
    IN  [h EXCEPT ![tea].sd =
            [key \in DOMAIN sd |->
                IF IsParameterKey(key)
                THEN [j \in 1..Len(sd[key]) |-> moved(sd[key][j])]
                ELSE sd[key]]]

\* one pass of lines 313-326 for one batch: the logits of both models are
\* divided by the temperature, the loss is back-propagated and
\* optimizer.step() moves the parameters the optimizer was built on, those of
\* the student.  The amount is an abstraction of Adam's: non-zero, and a
\* function of the temperature; with temperature 0 the loss is not a number
\* and neither is any parameter after the step.
OptimizerStep(h, stu, tea, batch, temp) ==
    LET sd == h[stu].sd
        moved(x) == IF temp = 0 \/ x = NaN THEN NaN
                    ELSE RAdd(x, RDiv(RInt(1), RInt(temp)))
    IN  [h EXCEPT ![stu].sd =
            [key \in DOMAIN sd |->
                IF IsParameterKey(key)
                THEN [j \in 1..Len(sd[key]) |-> moved(sd[key][j])]
                ELSE sd[key]]]

\* lines 305-309: the optimizer over student.parameters(), teacher.eval(),
\* student.train(); no argument is validated
DistillStart ==
    /\ ipc = "distill"
    /\ ipc' = "distilling"
    /\ epoch' = 0 /\ batch_index' = 1
    /\ kd_before' = heap
    /\ UNCHANGED <<ierr, logits, teacher, student, dataset, temperature,
                   optimizer_steps, kd_result>>
    /\ UNCHANGED <<sharedVars, mainVars, loopVars, fedVars, dmVars>>

\* the body of `for batch in dataset`, for the next batch of the dataset
DistillBatch ==
    /\ ipc = "distilling" /\ epoch < DistillEpochs
    /\ batch_index <= Len(dataset)
    /\ heap' = OptimizerStep(heap, student, teacher, dataset[batch_index], temperature)
    /\ optimizer_steps' = Append(optimizer_steps, dataset[batch_index])
    /\ batch_index' = batch_index + 1
    /\ UNCHANGED <<ipc, ierr, logits, teacher, student, dataset, temperature,
                   epoch, kd_before, kd_result>>
    /\ UNCHANGED <<hub, trained_modules, disk, mainVars, loopVars, fedVars, dmVars>>

\* the dataset is exhausted: the next value of range(5)
DistillEpochEnd ==
    /\ ipc = "distilling" /\ epoch < DistillEpochs
    /\ batch_index > Len(dataset)
    /\ epoch' = epoch + 1 /\ batch_index' = 1
    /\ UNCHANGED <<ipc, ierr, logits, teacher, student, dataset, temperature,
                   optimizer_steps, kd_before, kd_result>>
    /\ UNCHANGED <<sharedVars, mainVars, loopVars, fedVars, dmVars>>

\* DistillReturn with a fault: the loop may stop after any full epoch
DistillReturnEarly ==
    /\ ipc = "distilling" /\ epoch >= 1 /\ batch_index = 1
    /\ kd_result' = student
    /\ ipc' = "distilled"
    /\ UNCHANGED <<ierr, logits, teacher, student, dataset, temperature,
                   epoch, batch_index, optimizer_steps, kd_before>>
    /\ UNCHANGED <<sharedVars, mainVars, loopVars, fedVars, dmVars>>

\* range(5) is exhausted: return student
DistillReturn ==
    /\ ipc = "distilling" /\ epoch = DistillEpochs
    /\ kd_result' = student
    /\ ipc' = "distilled"
    /\ UNCHANGED <<ierr, logits, teacher, student, dataset, temperature,
                   epoch, batch_index, optimizer_steps, kd_before>>
    /\ UNCHANGED <<sharedVars, mainVars, loopVars, fedVars, dmVars>>

\* a trained teacher, a pretrained student (two objects), a dataset of at
\* most MaxBatches batches and a negative, zero or positive temperature
DistillInit ==
    /\ hub = AllHub
    /\ sched = "asyncio"
    /\ MainStart /\ LoopIdle /\ FedIdle
    /\ trained_modules = <<>> /\ disk = {}
    /\ \E tea \in ModuleSamples, base \in {AllConfigs[i].base_model : i \in 1..Len(AllConfigs)} :
         heap = <<tea, NewModule(base)>>
    /\ teacher = 1 /\ student = 2
    /\ \E n \in 0..MaxBatches : dataset = [i \in 1..n |-> i]
    /\ temperature \in (-1)..MaxTemperature
    /\ ipc = "distill" /\ ierr = "none" /\ logits = <<>>
    /\ epoch = 0 /\ batch_index = 0
    /\ optimizer_steps = <<>> /\ kd_before = <<>> /\ kd_result = 0
    /\ LoaderIdle

DistillNext == DistillStart \/ DistillBatch \/ DistillEpochEnd \/ DistillReturn

DistillSpec == DistillInit /\ [][DistillNext]_vars

(***************************************************************************)
(* DatasetManager.load_dataset_for_module(dataset_names), called on its    *)
(* own on any list of names.                                               *)
(***************************************************************************)
\* the names a caller may pass: those of AVAILABLE_DATASETS and one that is
\* not in the table
DatasetNames == DOMAIN AVAILABLE_DATASETS \cup {"unknown_corpus"}

\* self.data_manager.load_dataset_for_module(dataset_names)
CallLoad ==
    /\ dmpc = "load"
    /\ load_result' = LoadDatasetForModule(dataset_names, hub)
    /\ dmpc' = IF LoadDatasetForModule(dataset_names, hub).ok THEN "loaded" ELSE "raised"
    /\ UNCHANGED dataset_names
    /\ UNCHANGED <<ipc, ierr, logits, kdVars>>
    /\ UNCHANGED <<sharedVars, mainVars, loopVars, fedVars>>

DataInit ==
    /\ hub \in HubScenarios
    /\ TrainerInit
    /\ sched = "asyncio"
    /\ MainStart /\ LoopIdle /\ FedIdle
    /\ ipc = "idle" /\ ierr = "none" /\ logits = <<>> /\ DistillIdle
    /\ dmpc = "load"
    /\ dataset_names \in SeqsUpTo(DatasetNames, MaxNames)
    /\ load_result = [ok |-> FALSE, corpus |-> <<>>, err |-> "none"]

DataNext == CallLoad

DataSpec == DataInit /\ [][DataNext]_vars

(***************************************************************************)
(* Properties.                                                             *)
(***************************************************************************)
\* C1: once _federated_averaging has returned, every input module still has
\* the parameters it had before the call, and the returned module is none of
\* the inputs.
AveragingLeavesInputs ==
    fpc = "averaged" =>
        /\ \A i \in 1..Len(client_models) : heap[client_models[i]].sd = fed_inputs[i]
        /\ \A i \in 1..Len(client_models) : global_model # client_models[i]

\* r is the arithmetic mean of the rationals xs (compared by cross
\* multiplication over the common denominator)
RECURSIVE DenProduct(_)
DenProduct(xs) == IF xs = <<>> THEN 1 ELSE Head(xs)[2] * DenProduct(Tail(xs))

IsMeanOf(r, xs) ==
    LET D == DenProduct(xs)
        total == SeqSum([i \in 1..Len(xs) |-> xs[i][1] * (D \div xs[i][2])])
    IN  r[1] * Len(xs) * D = r[2] * total

\* C2: once _federated_averaging has returned, the result has the keys and
\* shapes of the inputs and each element of each of its tensors is the
\* unweighted mean of the inputs' original elements at that place.
AveragingIsMean ==
    fpc = "averaged" =>
        LET result == heap[global_model].sd
            n == Len(fed_inputs)
        IN  /\ n >= 1
            /\ DOMAIN result = DOMAIN fed_inputs[1]
            /\ \A key \in DOMAIN result :
                 /\ Len(result[key]) = Len(fed_inputs[1][key])
                 /\ \A j \in 1..Len(result[key]) :
                      IsMeanOf(result[key][j], [i \in 1..n |-> fed_inputs[i][key][j]])

\* two clients with different parameters were averaged, to a fractional mean
AveragingIsMeanWitness ==
    /\ fpc = "averaged"
    /\ Len(fed_inputs) = 2
    /\ fed_inputs[1] # fed_inputs[2]
    /\ \E key \in DOMAIN heap[global_model].sd :
         \E j \in 1..Len(heap[global_model].sd[key]) :
            heap[global_model].sd[key][j][2] > 1

\* C3: when the batch of trainings has ended with a failed training, the
\* trainings that succeeded are in the registry, main() holds the results of
\* exactly those, and the failure has not ended the batch with an exception.
TrainAllIsolatesFailures ==
    (mpc \notin {"start", "gather"} /\ gather_exc # "none") =>
        /\ \A t \in Tasks : tpc[t] = "done" =>
              /\ DictHas(trained_modules, AllConfigs[t].name)
              /\ DictGet(trained_modules, AllConfigs[t].name) = tmodel[t]
        /\ Range(trained_models) = {tmodel[t] : t \in {u \in Tasks : tpc[u] = "done"}}
        /\ mpc # "raised"

\* C4: the loop enters DEPLOYING only from VALIDATING, and only when the
\* score drawn by that validation is strictly greater than the score the
\* same cycle recorded before retraining.
DeployOnlyIfImproved ==
    [][(lpc' = "deploying" /\ lpc # "deploying") =>
          /\ lpc = "validating"
          /\ current_performance' = current_performance
          /\ current_performance = performance_history[Len(performance_history)]
          /\ new_performance' > current_performance]_vars

\* the loop is in DEPLOYING
DeployOnlyIfImprovedWitness == lpc = "deploying"

\* C5: from DEPLOYING the loop hands the modules to persistence and goes on
\* to the normal inter-cycle wait.
DeployCompletes ==
    [][(lpc = "deploying" /\ lpc' # lpc) =>
          /\ lpc' = "waiting"
          /\ last_wait' = NormalWait
          /\ Len(deployed') = Len(deployed) + 1]_vars

\* C6: an exception raised by a step of a cycle is handled by the cool-down
\* wait, never ends the loop, and (unless the loop is cancelled meanwhile)
\* is followed by a new cycle at COLLECTING.
ErrorRecovers ==
    /\ [](loop_exc # "none" => (lpc \in {"cooldown", "cancelled"} /\ last_wait = CoolDown))
    /\ (loop_exc # "none") ~> (lpc = "collecting" \/ cancel_requested)

\* a new cycle has begun after a cycle that failed
ErrorRecoversWitness ==
    /\ lpc = "collecting" /\ cycle > 1
    /\ last_wait = CoolDown
    /\ ~cancel_requested

\* the order of the phases within a cycle that raises nothing
PhaseOrderEdges ==
    { <<"collecting", "evaluating">>, <<"evaluating", "selecting">>,
      <<"selecting", "retraining">>, <<"retraining", "validating">>,
      <<"validating", "deploying">>, <<"validating", "waiting">>,
      <<"deploying", "waiting">>, <<"waiting", "collecting">> }

\* C7: the loop starts in COLLECTING and, apart from the way into the error
\* handler and out of it and from cancellation, changes phase only along
\* COLLECTING, EVALUATING, SELECTING, RETRAINING, VALIDATING, optionally
\* DEPLOYING, the wait, COLLECTING.
PhaseOrder ==
    /\ lpc = "collecting"
    /\ [][lpc' # lpc =>
            \/ <<lpc, lpc'>> \in PhaseOrderEdges
            \/ lpc' = "cooldown" /\ loop_exc' # "none"
            \/ lpc = "cooldown" /\ lpc' = "collecting"
            \/ lpc' = "cancelled"]_vars

\* a whole cycle has run without an error
PhaseOrderWitness ==
    /\ lpc = "collecting" /\ cycle = 2
    /\ last_wait = NormalWait

\* C8: the loop ends only by a requested cancellation, which takes effect
\* only in one of the two waits; there it ends the loop, and in any other
\* phase, retraining included, the loop goes on to the next wait first.
CancelOnlyAtWaits ==
    [][/\ (lpc' = "cancelled" /\ lpc # "cancelled") =>
            (lpc \in {"waiting", "cooldown"} /\ cancel_requested)
       /\ (lpc \in {"waiting", "cooldown"} /\ cancel_requested /\ lpc' # lpc) =>
            lpc' = "cancelled"
       /\ lpc = "cancelled" => lpc' = "cancelled"]_vars

\* a cancellation requested during retraining ended the loop at a wait
CancelOnlyAtWaitsWitness ==
    /\ lpc = "cancelled"
    /\ cancel_at = "retraining"

RegistryHoldsOwnModules ==
    /\ [](/\ \A i \in 1..Len(trained_modules) :
              LET e == trained_modules[i]
                  own == ConfigIndex(e.name)
              IN  /\ e.name \in ConfigNames
                  /\ tpc[own] = "done"
                  /\ e.obj = tmodel[own]
                  /\ heap[e.obj] = [base |-> AllConfigs[own].base_model,
                                     sd |-> TrainedParams(AllConfigs[own], tdata[own])]
                  /\ \A j \in 1..Len(trained_modules) :
                        trained_modules[j].name = e.name => j = i
           /\ \A t \in Tasks : tpc[t] = "done" =>
                 DictHas(trained_modules, AllConfigs[t].name))
    /\ [][trained_modules' # trained_modules =>
            \E t \in Tasks :
              /\ tpc[t] = "saved" /\ tpc'[t] = "done"
              /\ trained_modules' =
                    Append(trained_modules, [name |-> AllConfigs[t].name, obj |-> tmodel[t]])]_vars

\* all trainings ended on parallel workers, in another order than listed
RegistryHoldsOwnModulesWitness ==
    /\ sched = "workers"
    /\ \A t \in Tasks : tpc[t] = "done"
    /\ Len(trained_modules) = Len(AllConfigs)
    /\ trained_modules[1].name # AllConfigs[1].name

\* C11: a successful train_module(config) stores the module it trained under
\* config.name, in place of any module stored under that name before, leaves
\* the entry of every other name as it was, and returns that same module.
TrainStoresModule ==
    [][Len(client_models') = Len(client_models) + 1 =>
          LET config == client_configs[Len(client_models')]
              model == client_models'[Len(client_models')]
              stored == {i \in 1..Len(trained_modules') :
                            trained_modules'[i].name = config.name}
          IN  /\ model \notin DOMAIN heap
              /\ heap'[model].base = config.base_model
              /\ Cardinality(stored) = 1
              /\ \A i \in stored : trained_modules'[i].obj = model
              /\ Len(trained_modules') =
                    IF \E i \in 1..Len(trained_modules) :
                          trained_modules[i].name = config.name
                    THEN Len(trained_modules) ELSE Len(trained_modules) + 1
              /\ \A i \in 1..Len(trained_modules) :
                    trained_modules[i].name # config.name =>
                        /\ trained_modules'[i] = trained_modules[i]
                        /\ heap'[trained_modules[i].obj] = heap[trained_modules[i].obj]]_vars

\* the same config trained twice: the second module took the first one's place
TrainStoresModuleWitness ==
    /\ Len(client_models) = 2
    /\ client_configs[1].name = client_configs[2].name
    /\ client_models[1] # client_models[2]
    /\ Len(trained_modules) = 1
    /\ trained_modules[1].obj = client_models[2]

\* C12 as claimed: a train_module task fails with DataUnavailableError exactly
\* when none of the datasets its config names can be loaded; when at least
\* one of them loads, the data-loading step succeeds.
TrainFailsDataUnavailable ==
    \A t \in Tasks :
        LET loadable == {i \in 1..Len(AllConfigs[t].datasets) :
                            \/ AllConfigs[t].datasets[i] \in hub
                            \/ AllConfigs[t].datasets[i] = "us_federal_register"}
        IN  /\ terr[t] = "DataUnavailableError" => loadable = {}
            /\ tpc[t] = "failed" /\ loadable = {} /\ terr[t] # "OSError"
                  => terr[t] = "DataUnavailableError"
            /\ tpc[t] \in {"loaded", "trained", "saved", "done"} => loadable # {}

\* C12: a train_module task fails with the ValueError of
\* load_dataset_for_module exactly when none of the datasets its config names
\* can be loaded (a task whose model could not be fetched fails before that,
\* with OSError); when at least one of them loads, the data-loading step
\* succeeds and hands on a corpus made of loaded datasets only.
TrainFailsWithoutData ==
    \A t \in Tasks :
        LET names == AllConfigs[t].datasets
            loadable == {i \in 1..Len(names) :
                            names[i] \in hub \/ names[i] = "us_federal_register"}
        IN  /\ terr[t] = "ValueError" => tpc[t] = "failed" /\ loadable = {}
            /\ tpc[t] = "failed" /\ loadable = {} => terr[t] \in {"ValueError", "OSError"}
            /\ tpc[t] \in {"loaded", "trained", "saved", "done"} =>
                  /\ loadable # {}
                  /\ tdata[t] # <<>>
                  /\ \A k \in 1..Len(tdata[t]) : \E i \in loadable : tdata[t][k] = names[i]

\* one task went on with only part of its datasets loaded, a later one failed
\* because none of its datasets loaded
TrainFailsWithoutDataWitness ==
    \E s, t \in Tasks :
        /\ tpc[s] = "done" /\ Len(tdata[s]) < Len(AllConfigs[s].datasets)
        /\ tpc[t] = "failed" /\ terr[t] = "ValueError"

\* C13: a config whose name the trainer already holds is rejected with
\* DuplicateNameError, and the registry and its modules stay as they were.
DuplicateNameRejected ==
    [][/\ fpc = "training"
       /\ Len(client_models) < Len(client_configs)
       /\ DictHas(trained_modules, client_configs[Len(client_models) + 1].name)
       /\ <<fpc, client_models, heap, trained_modules>>' #
             <<fpc, client_models, heap, trained_modules>>
       => /\ fpc' = "raised" /\ ferr' = "DuplicateNameError"
          /\ trained_modules' = trained_modules
          /\ heap' = heap]_vars

\* C14 as claimed: averaging an empty list of modules fails with
\* EmptyInputError and produces no result.
AverageEmptyFailsEmptyInput ==
    client_configs = <<>> /\ fpc # "training" =>
        fpc = "raised" /\ ferr = "EmptyInputError" /\ global_model = 0

\* C14: _federated_averaging([]) fails with ValueError and produces no
\* result (no module is created or returned), and it raises ValueError for
\* the empty list only.
AverageEmptyFails ==
    /\ client_configs = <<>> /\ fpc # "training" =>
          /\ fpc = "raised" /\ ferr = "ValueError"
          /\ global_model = 0 /\ heap = <<>> /\ trained_modules = <<>>
    /\ fpc = "raised" /\ ferr = "ValueError" /\ Len(client_models) = Len(client_configs)
          => client_models = <<>>

\* federated_learning([]) has called _federated_averaging([])
AverageEmptyFailsWitness ==
    client_configs = <<>> /\ client_models = <<>> /\ fpc = "raised"

\* C15: averaging modules whose parameter schemas differ (a parameter name
\* missing in one input, or unequal shapes at some name) fails with
\* SchemaMismatchError, and every input module is unchanged after the failure.
AverageRejectsMismatch ==
    LET names(i) == DOMAIN fed_inputs[i]
        differ == \E i, j \in 1..Len(fed_inputs) :
                     \/ names(i) # names(j)
                     \/ \E key \in names(i) \cap names(j) :
                           Len(fed_inputs[i][key]) # Len(fed_inputs[j][key])
    IN  fpc # "average" /\ differ =>
            /\ fpc = "raised" /\ ferr = "SchemaMismatchError"
            /\ \A i \in 1..Len(client_models) : heap[client_models[i]].sd = fed_inputs[i]

\* what the code does in the case the claim is about: with a first module
\* whose names are a proper subset of the second's, the call returns
AverageAcceptsSubsetSchema ==
    /\ fpc = "averaged_only"
    /\ Len(fed_inputs) = 2
    /\ DOMAIN fed_inputs[1] # DOMAIN fed_inputs[2]
    /\ DOMAIN fed_inputs[1] \subseteq DOMAIN fed_inputs[2]
    /\ heap[client_models[1]].sd # fed_inputs[1]

\* C16: _apply_differential_privacy with epsilon zero or negative fails with
\* InvalidParameterError and leaves the module unchanged.
PrivacyRejectsNonPositive ==
    fpc # "privacy" /\ dp_epsilon <= 0 =>
        /\ fpc = "raised" /\ ferr = "InvalidParameterError"
        /\ heap[client_models[1]].sd = dp_input

\* what the code does with a negative epsilon: the call returns, with noise
\* added to the module
PrivacyAcceptsNegative ==
    /\ fpc = "privatized" /\ dp_epsilon < 0
    /\ heap[client_models[1]].sd # dp_input

\* the tensor `after` is the tensor `before` plus the draws z, each multiplied
\* by 1.0 / epsilon (compared as fractions, without dividing)
NoiseAdded(after, before, z, epsilon) ==
    /\ Len(after) = Len(before) /\ Len(z) = Len(before)
    /\ \A j \in 1..Len(before) :
          (after[j][1] * before[j][2] - before[j][1] * after[j][2]) * epsilon
              = z[j] * after[j][2] * before[j][2]

\* C17 as claimed: with a positive epsilon every tensor of the module's state
\* gets noise of scale 1.0 / epsilon added, none is left unperturbed.
PrivacyNoisesEveryTensor ==
    fpc = "privatized" /\ dp_epsilon > 0 =>
        /\ DOMAIN dp_noise = DOMAIN dp_input
        /\ \A key \in DOMAIN dp_input :
              NoiseAdded(heap[global_model].sd[key], dp_input[key], dp_noise[key], dp_epsilon)

\* C17: with a positive epsilon every tensor whose name contains "weight" or
\* "bias" gets noise of scale sensitivity / epsilon added, element by element,
\* with sensitivity 1.0; the other entries of the state (the position_ids
\* buffer) keep their values.
PrivacyNoisesWeightsAndBiases ==
    fpc = "privatized" /\ dp_epsilon > 0 =>
        LET parameters == DOMAIN dp_input \cap
                             {"embeddings.word_embeddings.weight", "classifier.bias"}
            after == heap[global_model].sd
        IN  /\ DOMAIN dp_noise = parameters
            /\ DOMAIN after = DOMAIN dp_input
            /\ \A key \in parameters :
                  NoiseAdded(after[key], dp_input[key], dp_noise[key], dp_epsilon)
            /\ \A key \in DOMAIN dp_input \ parameters : after[key] = dp_input[key]

\* a module with a weight, a bias and the position_ids buffer went through the
\* call with epsilon 2, and every element drawn was non-zero
PrivacyNoisesWeightsAndBiasesWitness ==
    /\ fpc = "privatized" /\ dp_epsilon = 2
    /\ DOMAIN dp_input = Range(StateKeys)
    /\ \A key \in DOMAIN dp_noise : \A j \in 1..Len(dp_noise[key]) : dp_noise[key][j] # 0

\* C18: _apply_differential_privacy changes the tensors of the module it is
\* given and returns that same object: no other module object exists after
\* the call, and none holds the values from before the noise.
PrivacyInPlace ==
    fpc = "privatized" =>
        /\ global_model = client_models[1]
        /\ DOMAIN heap = {client_models[1]}
        /\ (\E key \in DOMAIN dp_noise : \E j \in 1..Len(dp_noise[key]) : dp_noise[key][j] # 0)
              => \A o \in DOMAIN heap : heap[o].sd # dp_input

\* the call returned after drawing some non-zero noise
PrivacyInPlaceWitness ==
    /\ fpc = "privatized" /\ dp_epsilon > 0
    /\ global_model = client_models[1]
    /\ heap[global_model].sd # dp_input

\* C19: performance_history only ever grows by appending, in failing cycles
\* too: it changes in the evaluating step alone, and every evaluating step
\* appends exactly one record, the score that step computed.
HistoryAppendOnly ==
    [][/\ performance_history' # performance_history =>
             /\ lpc = "evaluating"
             /\ Len(performance_history') = Len(performance_history) + 1
             /\ \A i \in 1..Len(performance_history) :
                   performance_history'[i] = performance_history[i]
       /\ lpc = "evaluating" /\ lpc' # "evaluating" =>
             /\ Len(performance_history') = Len(performance_history) + 1
             /\ performance_history'[Len(performance_history')] = current_performance'
             /\ current_performance' \in Scores]_vars

\* the first cycle failed after its evaluation, and the second cycle's
\* evaluation has added its record after the first one's
HistoryAppendOnlyWitness ==
    /\ cycle = 2 /\ lpc = "selecting"
    /\ last_wait = CoolDown
    /\ Len(performance_history) = 2
    /\ performance_history[2] = current_performance
    /\ performance_history[1] # performance_history[2]

\* C20: the wait the loop enters after a failed cycle is strictly shorter
\* than the wait it enters after a cycle that ran to its end.
CoolDownShorter ==
    /\ lpc = "cooldown" => loop_exc # "none" /\ last_wait < NormalWait
    /\ lpc = "waiting" => loop_exc = "none" /\ last_wait > CoolDown

\* the second cycle failed and the loop is in its cool-down wait
CoolDownShorterWitness ==
    /\ lpc = "cooldown" /\ cycle = 2
    /\ loop_exc # "none"
    /\ last_wait = CoolDown

\* C21: create_ensemble called with an empty mapping fails with
\* EmptyInputError and yields no ensemble.
ComposeRejectsEmpty ==
    trained_modules = <<>> /\ ipc # "compose" =>
        /\ ierr = "EmptyInputError"
        /\ ensemble = NoEnsemble

\* what the code does with the empty mapping: an ensemble without members,
\* whose integration layer has no input features, is returned
ComposeAcceptsEmpty ==
    /\ trained_modules = <<>> /\ ipc = "composed"
    /\ ensemble = [members |-> <<>>, in_features |-> 0]

\* C22: a forward call on an ensemble returns logits, computed from the
\* pooled outputs of the members visited in the insertion order of the mapping
\* the ensemble was composed from (integration layer, relu, classifier), the
\* same logits for the same parameters and input.
EnsembleInfersInOrder ==
    ipc \notin {"compose", "composed"} =>
        /\ ipc = "inferred" /\ ierr = "none"
        /\ logits.visited = DictKeys(trained_modules)

\* C23: throughout knowledge_distillation, and after it, the teacher has the
\* parameters it had at the call; every change of a module is an optimizer
\* step, and it changes the student alone.
TeacherUnchanged ==
    /\ [](ipc \in {"distilling", "distilled"} => heap[teacher] = kd_before[teacher])
    /\ [][heap' # heap =>
            /\ DOMAIN heap' = DOMAIN heap
            /\ \A o \in DOMAIN heap : o # student => heap'[o] = heap[o]
            /\ Len(optimizer_steps') = Len(optimizer_steps) + 1]_vars

\* the call returned after optimizer steps that changed the student
TeacherUnchangedWitness ==
    /\ ipc = "distilled" /\ temperature > 0
    /\ optimizer_steps # <<>>
    /\ heap[student] # kd_before[student]
    /\ heap[teacher] = kd_before[teacher]

\* C24: knowledge_distillation with a temperature that is zero or negative
\* fails with InvalidParameterError before any student parameter is updated.
DistillRejectsNonPositive ==
    temperature <= 0 /\ ipc \notin {"idle", "distill"} =>
        /\ ipc = "raised" /\ ierr = "InvalidParameterError"
        /\ heap = kd_before

\* what the code does with a temperature of zero: the call returns, and the
\* student's parameters are no numbers any more
DistillAcceptsZero ==
    /\ ipc = "distilled" /\ temperature = 0
    /\ kd_result = student
    /\ \A key \in DOMAIN heap[student].sd :
          IsParameterKey(key) => \A j \in 1..Len(heap[student].sd[key]) :
                                    heap[student].sd[key][j] = NaN

\* C25 as claimed: on return the number of optimizer steps is epochs x B for
\* the epochs value the caller asks for, whichever it is.
DistillStepsFollowEpochs ==
    ipc = "distilled" =>
        \A epochs \in 1..DistillEpochs :
            Len(optimizer_steps) = epochs * Len(dataset)

\* C25: knowledge_distillation stops by epoch count alone, and the count is
\* the fixed 5 of the code: for a dataset of B batches it makes exactly 5 x B
\* optimizer steps on the student, taking the batches in dataset order within
\* each epoch, and then returns the student.
DistillStepsFixedEpochs ==
    /\ ipc = "distilling" => Len(optimizer_steps) <= 5 * Len(dataset)
    /\ ipc = "distilled" =>
          /\ kd_result = student
          /\ Len(optimizer_steps) = 5 * Len(dataset)
          /\ \A k \in 1..Len(optimizer_steps) :
                optimizer_steps[k] = dataset[((k - 1) % Len(dataset)) + 1]

\* the call returned for a dataset of two batches
DistillStepsFixedEpochsWitness ==
    /\ ipc = "distilled"
    /\ Len(dataset) = 2
    /\ optimizer_steps = <<1, 2, 1, 2, 1, 2, 1, 2, 1, 2>>

\* C26: once federated_learning has completed, every registry entry still
\* holds the parameters its client's own training produced (averaging and
\* noise changed no module reachable through the registry), and the global
\* module returned is not the object of any registry entry.
FederatedLeavesRegistry ==
    fpc = "done" =>
        \A i \in 1..Len(trained_modules) :
            LET config == AllConfigs[ConfigIndex(trained_modules[i].name)]
            IN  /\ heap[trained_modules[i].obj].sd =
                      TrainedParams(config, LoadedDatasets(config.datasets, hub))
                /\ global_model # trained_modules[i].obj

\* C27: a train_module call that fails, at whichever step, leaves the
\* registry exactly as it was: the step that fails does not change it, and
\* the name of a failed training has no entry (the registry write is the last
\* step, after training and saving).
FailedTrainLeavesRegistry ==
    /\ [](\A t \in Tasks : tpc[t] = "failed" =>
             \A i \in 1..Len(trained_modules) :
                 trained_modules[i].name # AllConfigs[t].name)
    /\ [][\A t \in Tasks :
            /\ tpc'[t] = "failed" /\ tpc[t] # "failed" =>
                  trained_modules' = trained_modules
            /\ tpc[t] \in {"pending", "loaded", "trained"} /\ tpc'[t] # tpc[t] =>
                  trained_modules' = trained_modules]_vars

\* one training failed in the optimization step after another one had been
\* registered
FailedTrainLeavesRegistryWitness ==
    \E t \in Tasks :
        /\ tpc[t] = "failed" /\ terr[t] = "RuntimeError"
        /\ trained_modules # <<>>
        /\ \A i \in 1..Len(trained_modules) : trained_modules[i].name # AllConfigs[t].name

\* C28: every iteration of the loop ends with exactly one wait: the next
\* iteration starts from a wait only, a wait is followed by nothing but the
\* next iteration (or the loop's cancellation), the normal wait is entered
\* exactly by a cycle in which nothing raised and the cool-down wait exactly
\* by a raise; nothing is deployed except by the deploying step of a cycle
\* that has not raised.
OneWaitPerCycle ==
    [][/\ cycle' # cycle =>
             /\ cycle' = cycle + 1
             /\ lpc \in {"waiting", "cooldown"} /\ lpc' = "collecting"
       /\ lpc \in {"waiting", "cooldown"} /\ lpc' # lpc =>
             /\ lpc' \in {"collecting", "cancelled"}
             /\ lpc' = "collecting" => cycle' = cycle + 1
       /\ lpc' = "waiting" /\ lpc # "waiting" =>
             /\ lpc \in {"validating", "deploying"}
             /\ loop_exc = "none" /\ loop_exc' = "none"
             /\ last_wait' = NormalWait
       /\ lpc' = "cooldown" /\ lpc # "cooldown" =>
             /\ loop_exc = "none" /\ loop_exc' # "none"
             /\ last_wait' = CoolDown
       /\ loop_exc = "none" /\ loop_exc' # "none" => lpc' = "cooldown" /\ lpc # "cooldown"
       /\ lpc \in {"validating", "deploying"} /\ lpc' \notin {lpc, "deploying", "cooldown"}
             => lpc' = "waiting"
       /\ deployed' # deployed => lpc = "deploying" /\ loop_exc' = "none"]_vars

\* the second iteration ran to its end and is in the normal wait
OneWaitPerCycleWitness ==
    /\ lpc = "waiting" /\ cycle = 2
    /\ loop_exc = "none" /\ last_wait = NormalWait
    /\ Len(performance_history) = 2

\* C29: in main() the ensemble is composed only after every training task
\* has finished, its members are exactly the entries of the registry in the
\* order they were registered, the loop is started only after the ensemble
\* has been saved, and when a training task has failed neither is the
\* ensemble composed nor the loop started.
MainOrder ==
    /\ mpc \in {"gathered", "composed", "ensemble_saved", "run_training_loop"} =>
          \A t \in Tasks : tpc[t] = "done"
    /\ ensemble # NoEnsemble =>
          /\ mpc \in {"composed", "ensemble_saved", "run_training_loop", "raised"}
          /\ \A t \in Tasks : tpc[t] = "done"
          /\ ensemble.members = trained_modules
          /\ Len(ensemble.members) = Len(AllConfigs)
          /\ \A t \in Tasks : ensemble.members[t] = [name |-> AllConfigs[t].name, obj |-> tmodel[t]]
    /\ mpc \in {"composed", "ensemble_saved", "run_training_loop"} => ensemble # NoEnsemble
    /\ mpc = "run_training_loop" => "aion_cr_ensemble.pth" \in disk
    /\ (\E t \in Tasks : tpc[t] = "failed") =>
          /\ ensemble = NoEnsemble
          /\ mpc \in {"gather", "raised"}
          /\ "aion_cr_ensemble.pth" \notin disk

\* main() has started the loop, with an ensemble of all six modules
MainOrderWitness ==
    /\ mpc = "run_training_loop"
    /\ Len(ensemble.members) = Len(AllConfigs)
    /\ ensemble.members = trained_modules

\* C30: load_dataset_for_module goes through the requested names in order; a
\* name that is unknown or whose loader raises is skipped and the names after
\* it are still tried; the corpus returned is the concatenation, in requested
\* order, of exactly the datasets that loaded (and the call raises when there
\* is none).
LoadSkipsFailures ==
    LET Loads(name) == name \in hub \/ name = "us_federal_register"
        expected == SelectSeq(dataset_names, Loads)
    IN  /\ dmpc = "loaded" => /\ load_result.ok /\ expected # <<>>
                              /\ load_result.corpus = expected
        /\ dmpc = "raised" => /\ ~load_result.ok /\ expected = <<>>
                              /\ load_result.corpus = <<>>

\* the first name requested could not be loaded, the second one was
LoadSkipsFailuresWitness ==
    /\ dmpc = "loaded"
    /\ Len(dataset_names) = 2
    /\ dataset_names[1] \notin hub \cup {"us_federal_register"}
    /\ load_result.corpus = <<dataset_names[2]>>

=============================================================================
